---- MODULE Spec2Model ----
(***************************************************************************)
(* PasswordBuilder (src/src/lib.rs): a fluent builder holding a length and *)
(* four flags, consumed by build(), which composes an alphabet and draws   *)
(* one random index per output character.                                  *)
(*                                                                         *)
(* A String is modelled as the sequence of its UTF-8 bytes, a char as its  *)
(* code point.  The random generator is a nondeterministic choice over the *)
(* range handed to gen_range.                                              *)
(***************************************************************************)
EXTENDS Integers, Sequences, FiniteSets, TLC

VARIABLES
    pc,                  \* "cfg": builder being configured; "loop": inside build's for loop;
                         \* "done": build returned; "panic": build aborted
    self,                \* the PasswordBuilder value (struct fields)
    allowed_characters,  \* build's local String
    password,            \* build's local String, the result once pc = "done"
    next,                \* next value the range 0..self.length will yield
    ctor,                \* history: which constructor made the builder
    calls,               \* history: the mutator calls of the chain being configured, oldest
                         \* first; forgotten when build consumes the builder
    prev                 \* history: the builder value before the last mutator call

vars == <<pc, self, allowed_characters, password, next, ctor, calls, prev>>

---------------------------------------------------------------------------
(* Bounds *)

\* longest mutator chain explored
MaxCalls == 4
\* builds with more loop iterations than this are not explored by Spec
MaxLen == 2
\* in SpecLong, iterations after the first MaxFree explore a single draw
MaxFree == 1

\* i32::MIN and i32::MAX, the range of the length field
I32Max == 2147483647
I32Min == (-I32Max) - 1

\* arguments handed to set_length
LengthArgs == {I32Min, -1, 0, 2, I32Max}

---------------------------------------------------------------------------
(* The struct and its constructors *)

\* inherent fn default(), lines 13-21
default ==
    [length |-> 20,
     include_special_characters |-> FALSE,
     use_numbers |-> FALSE,
     use_uppercase |-> FALSE,
     use_underlines |-> FALSE]

\* <PasswordBuilder as Default>::default(), generated by #[derive(Default)]:
\* every field takes its type's default (i32: 0, bool: false)
derived_default ==
    [length |-> 0,
     include_special_characters |-> FALSE,
     use_numbers |-> FALSE,
     use_uppercase |-> FALSE,
     use_underlines |-> FALSE]

\* faulty variant of new: Self::default() resolving to the trait's function
new_via_trait == derived_default

\* pub fn new(): Self::default() resolves to the inherent function
new == default

Constructors == {"new", "Default"}

Construct(c) == IF c = "new" THEN new ELSE derived_default

---------------------------------------------------------------------------
(* Mutators: each takes the builder by value and returns the updated one *)

\* faulty variant of set_length: the builder is rebuilt from the defaults
set_length_fresh(b, length) == [default EXCEPT !.length = length]

set_length(b, length) == [b EXCEPT !.length = length]

include_special_characters(b) == [b EXCEPT !.include_special_characters = TRUE]

use_numbers(b) == [b EXCEPT !.use_numbers = TRUE]

\* faulty variant of use_uppercase: the neighbouring flag is overwritten as well
use_uppercase_clears_numbers(b) ==
    [b EXCEPT !.use_uppercase = TRUE, !.use_numbers = FALSE]

use_uppercase(b) == [b EXCEPT !.use_uppercase = TRUE]

\* faulty variant of use_underlines: the flag is toggled instead of set
use_underlines_toggle(b) == [b EXCEPT !.use_underlines = ~@]

use_underlines(b) == [b EXCEPT !.use_underlines = TRUE]

---------------------------------------------------------------------------
(* build *)

\* "qwertyuiopasdfghjklzxcvbnm"
BaseLiteral ==
    <<113, 119, 101, 114, 116, 121, 117, 105, 111, 112, 97, 115, 100, 102,
      103, 104, 106, 107, 108, 122, 120, 99, 118, 98, 110, 109>>

\* faulty variant of SpecialLiteral: the comma is part of the literal
SpecialLiteral_with_comma ==
    <<33, 34, 36, 35, 37, 39, 40, 41, 42, 43, 44, 96, 45, 46, 47, 58, 59, 60,
      61, 62, 63, 64, 91, 92, 93, 94, 123, 124, 125, 126, 38>>

\* "!\"$#%'()*+`-./:;<=>?@[\\]^{|}~&"
SpecialLiteral ==
    <<33, 34, 36, 35, 37, 39, 40, 41, 42, 43, 96, 45, 46, 47, 58, 59, 60, 61,
      62, 63, 64, 91, 92, 93, 94, 123, 124, 125, 126, 38>>

\* "1234567890"
NumbersLiteral == <<49, 50, 51, 52, 53, 54, 55, 56, 57, 48>>

\* "QWERTYUIOPASDFGHJKLZXCVBNM"
UppercaseLiteral ==
    <<81, 87, 69, 82, 84, 89, 85, 73, 79, 80, 65, 83, 68, 70, 71, 72, 74, 75,
      76, 90, 88, 67, 86, 66, 78, 77>>

\* "_"
UnderlineLiteral == <<95>>

\* faulty variant of Compose: the digits are appended whatever use_numbers says
Compose_digits_always(b) ==
    BaseLiteral
      \o (IF b.include_special_characters THEN SpecialLiteral ELSE <<>>)
      \o NumbersLiteral
      \o (IF b.use_uppercase THEN UppercaseLiteral ELSE <<>>)
      \o (IF b.use_underlines THEN UnderlineLiteral ELSE <<>>)

\* lines 55-68: the alphabet, appended in the fixed order of the four ifs
Compose(b) ==
    BaseLiteral
      \o (IF b.include_special_characters THEN SpecialLiteral ELSE <<>>)
      \o (IF b.use_numbers THEN NumbersLiteral ELSE <<>>)
      \o (IF b.use_uppercase THEN UppercaseLiteral ELSE <<>>)
      \o (IF b.use_underlines THEN UnderlineLiteral ELSE <<>>)

\* faulty variant of gen_range: the last value of the range is never returned
gen_range_short(low, high) == low .. (high - 2)

\* faulty variant of gen_range: the range is taken as inclusive, low..=high
gen_range_inclusive(low, high) == low .. high

\* rng.gen_range(low..high): the values it can return (it panics on an empty range)
gen_range(low, high) == low .. (high - 1)

\* `byte as char`: the code point with the byte's value
AsChar(byte) == byte

\* String::push: appends the UTF-8 encoding of the char (code points below 256)
Push(s, ch) ==
    IF ch < 128 THEN Append(s, ch)
    ELSE s \o <<192 + (ch \div 64), 128 + (ch % 64)>>

\* faulty variant of RangeHasNext: the range is taken as inclusive, k..=length
RangeHasNext_inclusive(k, length) == k <= length

\* Range<i32>::next on the range k..length: it yields k while k < length
RangeHasNext(k, length) == k < length

\* number of values the range 0..length yields
Iterations(length) == IF RangeHasNext(0, length) THEN length ELSE 0

\* the draws explored out of range `r` at iteration k of a long build:
\* all of them for the first MaxFree iterations, then the largest only
LongDraws(r, k) ==
    IF k < MaxFree THEN r ELSE {d \in r : (d + 1) \notin r}

---------------------------------------------------------------------------
(* State machine *)

Init ==
    /\ ctor \in Constructors
    /\ self = Construct(ctor)
    /\ prev = Construct(ctor)
    /\ calls = <<>>
    /\ pc = "cfg"
    /\ allowed_characters = <<>>
    /\ password = <<>>
    /\ next = 0

Call(op, arg) == [op |-> op, arg |-> arg]

\* a mutator call in the chain: the builder is replaced by the returned value
Mutate(op, arg, result) ==
    /\ pc = "cfg"
    /\ Len(calls) < MaxCalls
    /\ self' = result
    /\ prev' = self
    /\ calls' = Append(calls, Call(op, arg))
    /\ UNCHANGED <<pc, allowed_characters, password, next, ctor>>

SetLength ==
    \E length \in LengthArgs : Mutate("set_length", length, set_length(self, length))

IncludeSpecialCharacters ==
    Mutate("include_special_characters", 0, include_special_characters(self))

UseNumbers == Mutate("use_numbers", 0, use_numbers(self))

UseUppercase == Mutate("use_uppercase", 0, use_uppercase(self))

UseUnderlines == Mutate("use_underlines", 0, use_underlines(self))

\* build, lines 53-70: the locals are set up and the range 0..self.length starts
BuildEnter ==
    /\ pc = "cfg"
    /\ pc' = "loop"
    /\ password' = <<>>
    /\ allowed_characters' = Compose(self)
    /\ next' = 0
    /\ calls' = <<>>
    /\ prev' = self
    /\ UNCHANGED <<self, ctor>>

\* build as explored by Spec: loops of at most MaxLen iterations
Build ==
    /\ Iterations(self.length) <= MaxLen
    /\ BuildEnter

\* build as explored by SpecLong: any loop length
BuildLong == BuildEnter

\* one iteration of the for loop, lines 71-75; `free`: every draw is explored
Iterate(free) ==
    /\ pc = "loop"
    /\ RangeHasNext(next, self.length)
    /\ LET range == gen_range(0, Len(allowed_characters))
           draws == IF free THEN range ELSE LongDraws(range, next)
       IN  IF range = {}
           THEN /\ pc' = "panic"
                /\ UNCHANGED <<password, next>>
           ELSE \E rand_num \in draws :
                  IF (rand_num + 1) \in DOMAIN allowed_characters
                  THEN /\ password' = Push(password, AsChar(allowed_characters[rand_num + 1]))
                       /\ next' = next + 1
                       /\ pc' = pc
                  ELSE /\ pc' = "panic"
                       /\ UNCHANGED <<password, next>>
    /\ UNCHANGED <<self, allowed_characters, ctor, calls, prev>>

BuildStep == Iterate(TRUE)

BuildStepLong == Iterate(FALSE)

\* the range is exhausted: build returns password, line 77
BuildReturn ==
    /\ pc = "loop"
    /\ ~RangeHasNext(next, self.length)
    /\ pc' = "done"
    /\ UNCHANGED <<self, allowed_characters, password, next, ctor, calls, prev>>

Next ==
    \/ SetLength
    \/ IncludeSpecialCharacters
    \/ UseNumbers
    \/ UseUppercase
    \/ UseUnderlines
    \/ Build
    \/ BuildStep
    \/ BuildReturn

Spec == Init /\ [][Next]_vars

\* builds of any length, reached without set_length
NextLong ==
    \/ IncludeSpecialCharacters
    \/ UseNumbers
    \/ UseUppercase
    \/ UseUnderlines
    \/ BuildLong
    \/ BuildStepLong
    \/ BuildReturn

SpecLong == Init /\ [][NextLong]_vars

---------------------------------------------------------------------------
(* Vocabulary of the properties *)

Lowercase == 97 .. 122
Digits == 48 .. 57
Uppercase == 65 .. 90
Underscore == {95}
\* ASCII punctuation without the comma and the underscore
SpecialCharacters ==
    ((33 .. 47) \ {44}) \cup (58 .. 64) \cup (91 .. 94) \cup {96} \cup (123 .. 126)

\* the alphabet the flags of builder b stand for
AlphabetOf(b) ==
    Lowercase
      \cup (IF b.include_special_characters THEN SpecialCharacters ELSE {})
      \cup (IF b.use_numbers THEN Digits ELSE {})
      \cup (IF b.use_uppercase THEN Uppercase ELSE {})
      \cup (IF b.use_underlines THEN Underscore ELSE {})

Chars(s) == {s[i] : i \in DOMAIN s}

NoRepeat(s) == \A i, j \in DOMAIN s : s[i] = s[j] => i = j

AllFlags(b) ==
    /\ b.include_special_characters
    /\ b.use_numbers
    /\ b.use_uppercase
    /\ b.use_underlines

NoFlags(b) ==
    /\ ~b.include_special_characters
    /\ ~b.use_numbers
    /\ ~b.use_uppercase
    /\ ~b.use_underlines

FlagOps == {"include_special_characters", "use_numbers", "use_uppercase", "use_underlines"}

Flag(b, op) ==
    CASE op = "include_special_characters" -> b.include_special_characters
      [] op = "use_numbers" -> b.use_numbers
      [] op = "use_uppercase" -> b.use_uppercase
      [] op = "use_underlines" -> b.use_underlines

\* the builder a call returns
Apply(b, call) ==
    CASE call.op = "set_length" -> set_length(b, call.arg)
      [] call.op = "include_special_characters" -> include_special_characters(b)
      [] call.op = "use_numbers" -> use_numbers(b)
      [] call.op = "use_uppercase" -> use_uppercase(b)
      [] call.op = "use_underlines" -> use_underlines(b)

RECURSIVE ApplyAll(_, _)
ApplyAll(b, chain) ==
    IF chain = <<>> THEN b ELSE ApplyAll(Apply(b, Head(chain)), Tail(chain))

Ops(chain) == {chain[i].op : i \in DOMAIN chain}

\* every chain of at most MaxCalls flag mutator calls
FlagChains ==
    UNION {[1 .. n -> {Call(op, 0) : op \in FlagOps}] : n \in 0 .. MaxCalls}

LastCall == calls[Len(calls)]

---------------------------------------------------------------------------
(* Properties *)

\* C1: build() returns a string of length exactly max(length, 0); a zero or
\* negative length gives the empty string, whatever the flags.
C1_LengthIsMaxOfLengthAndZero ==
    pc = "done" =>
        /\ Len(password) = (IF self.length >= 0 THEN self.length ELSE 0)
        /\ (self.length <= 0 => password = <<>>)

C1_Witness ==
    /\ pc = "done"
    /\ self.length = I32Min
    /\ self.use_numbers
    /\ self.use_underlines
    /\ password = <<>>

\* C2: every character of the string build() assembles belongs to the
\* alphabet the active flags stand for; no character of a category whose flag
\* is false appears.
C2_CharactersInAlphabet ==
    pc \in {"loop", "done"} => Chars(password) \subseteq AlphabetOf(self)

C2_Witness ==
    /\ pc = "done"
    /\ self.include_special_characters
    /\ self.use_uppercase
    /\ ~self.use_numbers
    /\ ~self.use_underlines
    /\ Len(password) = 2
    /\ password[1] \in SpecialCharacters
    /\ password[2] \in Uppercase

\* C3 as stated: with all four flags the alphabet build composes has 94 unique
\* characters, 31 of them special characters.
C3_Original ==
    (pc = "loop" /\ next = 0 /\ AllFlags(self)) =>
        /\ Len(allowed_characters) = 94
        /\ NoRepeat(allowed_characters)
        /\ Len(SpecialLiteral) = 31

\* C3 (amended): with all four flags the alphabet build composes (it is not
\* changed by the loop) has 93 unique characters:
\* 26 lowercase letters + 30 special characters (none repeated) + 10 digits +
\* 26 uppercase letters + underscore.
C3_AlphabetOf93 ==
    (pc = "loop" /\ next = 0 /\ AllFlags(self)) =>
        /\ Len(allowed_characters) = 93
        /\ NoRepeat(allowed_characters)
        /\ Cardinality(Chars(allowed_characters)) = 93
        /\ Cardinality(Chars(allowed_characters) \cap Lowercase) = 26
        /\ Cardinality(Chars(allowed_characters) \cap SpecialCharacters) = 30
        /\ Cardinality(Chars(allowed_characters) \cap Digits) = 10
        /\ Cardinality(Chars(allowed_characters) \cap Uppercase) = 26
        /\ Cardinality(Chars(allowed_characters) \cap Underscore) = 1

C3_Witness ==
    /\ pc = "loop"
    /\ next = 1
    /\ AllFlags(self)
    /\ self.length = 20
    /\ Len(allowed_characters) = 93
    /\ password = <<38>>

\* C4: new() has length 20 and all flags false, and new().build() with no
\* mutators returns 20 characters, all of them lowercase letters.
C4_NewBuildsTwentyLowercase ==
    /\ (ctor = "new" /\ pc = "cfg" /\ calls = <<>>) =>
           (self.length = 20 /\ NoFlags(self))
    /\ (ctor = "new" /\ pc = "done" /\ self.length = 20 /\ NoFlags(self)) =>
           (Len(password) = 20 /\ Chars(password) \subseteq Lowercase)

C4_Witness ==
    /\ ctor = "new"
    /\ pc = "done"
    /\ NoFlags(self)
    /\ Len(password) = 20
    /\ password[1] = 113

\* C5: each position is drawn from the whole alphabet, whatever was drawn
\* before: while the loop has an iteration left, every character of the
\* alphabet can be the next one appended (so every string of the right length
\* over the alphabet is a possible result).
C5_EveryCharacterCanBeDrawn ==
    (pc = "loop" /\ next < self.length) =>
        \A c \in AlphabetOf(self) :
            ENABLED (BuildStep /\ password' = Append(password, c))

C5_Witness ==
    /\ pc = "done"
    /\ self.use_numbers
    /\ Len(password) = 2
    /\ password[1] = password[2]
    /\ Chars(password) \cap Digits = {}

\* C6: flag mutators are order-independent: every chain of flag mutator calls
\* that enables the same set of flags as the chain applied gives the same
\* configuration and the same alphabet, in the same order.
C6_FlagOrderIndependent ==
    (pc = "cfg" /\ Ops(calls) \subseteq FlagOps) =>
        \A chain \in FlagChains :
            Ops(chain) = Ops(calls) =>
                /\ ApplyAll(Construct(ctor), chain) = self
                /\ Compose(ApplyAll(Construct(ctor), chain)) = Compose(self)

C6_Witness ==
    /\ pc = "cfg"
    /\ Len(calls) = 2
    /\ calls[1].op = "use_uppercase"
    /\ calls[2].op = "use_numbers"

\* C7: every mutator is idempotent: a mutator applied twice in a row (set_length
\* with the same argument) leaves the configuration as the first call made it.
C7_MutatorsIdempotent ==
    pc = "cfg" =>
        /\ (Len(calls) >= 2 /\ calls[Len(calls) - 1] = LastCall) => self = prev
        /\ \A call \in {Call(op, 0) : op \in FlagOps}
                       \cup {Call("set_length", n) : n \in LengthArgs} :
               Apply(Apply(self, call), call) = Apply(self, call)

C7_Witness ==
    /\ pc = "cfg"
    /\ Len(calls) = 3
    /\ calls[1].op = "set_length"
    /\ calls[2].op = "use_underlines"
    /\ calls[3].op = "use_underlines"

\* C8: build() has no failure path: the alphabet always holds the 26 lowercase
\* letters, the range of the draw is never empty and every index it can yield
\* is a position of the alphabet; build never aborts.
C8_BuildNeverPanics ==
    /\ pc # "panic"
    /\ pc = "loop" =>
          /\ Lowercase \subseteq Chars(allowed_characters)
          /\ gen_range(0, Len(allowed_characters)) # {}
          /\ \A rand_num \in gen_range(0, Len(allowed_characters)) :
                 (rand_num + 1) \in DOMAIN allowed_characters

C8_Witness ==
    /\ pc = "done"
    /\ Len(password) = 2
    /\ password[1] = allowed_characters[1]
    /\ password[2] = allowed_characters[Len(allowed_characters)]

\* C9: after any chain of mutator calls from new(), a flag is true iff its own
\* mutator was called, length is the argument of the last set_length call (20
\* if there was none); set_length leaves the flags alone and a flag mutator
\* leaves length and the other flags alone.
C9_FlagsAndLengthFollowCalls ==
    (pc = "cfg" /\ ctor = "new") =>
        /\ \A op \in FlagOps : Flag(self, op) <=> op \in Ops(calls)
        /\ LET sets == {i \in DOMAIN calls : calls[i].op = "set_length"} IN
             IF sets = {} THEN self.length = 20
             ELSE \E i \in sets : /\ \A j \in sets : j <= i
                                  /\ self.length = calls[i].arg
        /\ calls # <<>> =>
             /\ \A op \in FlagOps \ {LastCall.op} : Flag(self, op) = Flag(prev, op)
             /\ LastCall.op # "set_length" => self.length = prev.length

C9_Witness ==
    /\ pc = "cfg"
    /\ ctor = "new"
    /\ Len(calls) = 3
    /\ calls[1].op = "use_numbers"
    /\ calls[2] = Call("set_length", -1)
    /\ calls[3] = Call("set_length", 2)
    /\ self.use_numbers
    /\ self.length = 2

\* C10 as stated: whichever constructor made the builder, its length is that
\* of new() and, built without set_length, it returns a 20-character password.
C10_ConstructorsAgree ==
    pc = "done" => (self.length = new.length /\ Len(password) = 20)

====
